---- MODULE Spec2Model ----
(***************************************************************************)
(* The add-diff command of taskgit: per-hunk selection of a parsed diff,   *)
(* the patch cache (CacheStore) that holds the reconstructed patches in    *)
(* scratch files, and the checkout / apply / add protocol that replays     *)
(* them on the working tree and the index.                                 *)
(*                                                                         *)
(* A hunk is an atom (the hunks of one file are pairwise different         *)
(* strings: their @@ lines carry different line numbers); a patch document *)
(* is the file header it is built from plus the sequence of its hunks.     *)
(* The working tree and the index of a file are the sets of hunks of that  *)
(* file they contain on top of the state the diff was taken against.       *)
(*                                                                         *)
(* The diff parser and the three get...DiffPatch methods are also modelled *)
(* on the text itself (ParseSpec), a string being the sequence of its      *)
(* newlines and of the runs of characters between them.                    *)
(***************************************************************************)
EXTENDS Integers, Sequences, FiniteSets, TLC

\* Bounds of the model.
\* files in a diff
MaxFiles == 2
\* hunks of one file
MaxHunks == 2
\* the clock runs from 0 to MaxTime (CacheStore used on its own)
MaxTime == 0
\* distinct hashes in the table when CacheStore is used on its own
MaxEntries == 1

VARIABLES
    diffOutput,  \* DiffService.ts:83  the text 'git diff' printed
    diff,        \* addDiffCommand.ts:19  the parsed DiffOutputFile records
    pc,          \* position of the add-diff action
    fi,          \* index in diff of fileDiff (for loop, line 22)
    hi,          \* index in fileDiff.hunks of hunk (for loop, line 26)
    file,        \* addDiffCommand.ts:36  the FileChanges of the current file
    instance,    \* cacheService.ts:26  CacheStore.instance is set
    files,       \* the files of CacheStore.instance: hash -> FileChanges
    disk,        \* the scratch directory: path -> content
    now,         \* Date.now()
    wt,          \* working tree: fileName -> hunks present
    idx,         \* index (staging area): fileName -> hunks present
    calls,       \* the cache operations and external commands issued so far
    ret,         \* the outcome of the last CacheStore method call
    issued       \* the hashes createPatchCache has returned

vars == <<diffOutput, diff, pc, fi, hi, file, instance, files, disk, now, wt, idx,
          calls, ret, issued>>

----------------------------------------------------------------------------
\* Values

\* undefined and null are the empty tuple; a value that may be absent is the
\* one-element tuple of it. A string (a patch document) is held the same way,
\* so that a nullable string is either null or Str(document).
undefined == <<>>
null == <<>>
Some(x) == <<x>>
Str(document) == <<document>>

Range(s) == {s[i] : i \in DOMAIN s}

FileNames == 1..MaxFiles

\* 'a/<name> b/<name>', the rest of the 'diff --git ' line (DiffService.ts:100)
FilePath(name) == <<"a/", name, " b/", name>>

\* line.replace('diff --git ', '').split(' ')[0].replace('a/', '')
FileNameOf(path) == path[2]

\* new DiffOutputFile(conf): both selections start empty
DiffOutputFile(path, hunks) ==
    [file |-> path, fileName |-> FileNameOf(path), hunks |-> hunks,
     acceptedHunks |-> <<>>, ignoredHunks |-> <<>>]

\* A patch document: the four header lines of rec followed by hs.
Patch(rec, hs) == [file |-> rec.file, hunks |-> hs]

getTotalDiffPatch(rec) == Str(Patch(rec, rec.hunks))

getAcceptedDiffPatch(rec) ==
    IF Len(rec.acceptedHunks) = 0 THEN null ELSE Str(Patch(rec, rec.acceptedHunks))

getIgnoredDiffPatchNone(rec) == null

getIgnoredDiffPatch(rec) ==
    IF Len(rec.ignoredHunks) = 0 THEN null ELSE Str(Patch(rec, rec.ignoredHunks))

\* lines 29-30: the answer sends the hunk to exactly one of the two lists
PushHunkBoth(rec, hunk, answer) ==
    [rec EXCEPT !.acceptedHunks = IF answer THEN Append(@, hunk) ELSE @,
                !.ignoredHunks = Append(@, hunk)]

PushHunk(rec, hunk, answer) ==
    IF answer THEN [rec EXCEPT !.acceptedHunks = Append(@, hunk)]
              ELSE [rec EXCEPT !.ignoredHunks = Append(@, hunk)]

\* line 33: if (fileDiff.acceptedHunks.length === 0) continue
NeverSkips(rec) == FALSE

SkipsFile(rec) == Len(rec.acceptedHunks) = 0

----------------------------------------------------------------------------
\* CacheStore

\* sha1 of a string: different inputs give different digests
sha1(content) == <<"sha1", content>>

Hashes == {sha1(<<FilePath(n), t>>) : n \in FileNames, t \in 0..MaxTime}

writeFileSync(dsk, path, content) == (path :> content) @@ dsk

\* unlinkSync throws ENOENT when the path does not exist
unlinkSync(dsk, path) ==
    [threw |-> path \notin DOMAIN dsk,
     disk |-> [p \in DOMAIN dsk \ {path} |-> dsk[p]]]

CacheFile(hash, suffix, content) ==
    [cacheFilePath |-> <<hash, suffix>>, content |-> content]

\* The FileChanges record createPatchCache builds (lines 53-71)
FileChanges(f, t) ==
    LET hash == sha1(<<f.filePath, t>>) IN
    [hash |-> hash,
     acceptedChanges |-> CacheFile(hash, "-ac.patch", f.acceptedDiff),
     originalState |-> CacheFile(hash, "-or.patch", f.originalDiff),
     ignoredChanges |->
         IF f.ignoredDiff # undefined
         THEN Some(CacheFile(hash, "-ig.patch", f.ignoredDiff))
         ELSE undefined]

\* new CacheStore() that returns the object just constructed in every case
NewCacheStoreFresh(inst, tbl) ==
    LET this == [files |-> <<>>] IN
    IF ~inst
    THEN [instance |-> TRUE, table |-> this.files, files |-> this.files, same |-> TRUE]
    ELSE [instance |-> TRUE, table |-> tbl, files |-> this.files, same |-> FALSE]

\* new CacheStore() (lines 29-35). inst: CacheStore.instance is set; tbl: the
\* files of that instance. The constructor gives the new object an empty
\* table, makes it the instance if there is none, and returns the instance.
\* instance, table: the static and its files after the call; files: the
\* table of the object returned; same: the object returned is the instance.
NewCacheStore(inst, tbl) ==
    LET this == [files |-> <<>>] IN
    IF ~inst
    THEN [instance |-> TRUE, table |-> this.files, files |-> this.files, same |-> TRUE]
    ELSE [instance |-> TRUE, table |-> tbl, files |-> tbl, same |-> TRUE]

\* The files of CacheStore.instance after a method called through the handle
\* cache left that handle's table as tbl
InstanceFiles(cache, tbl) == IF cache.same THEN tbl ELSE cache.table

\* The writeFileSync call of createPatchCache that throws (the scratch
\* directory is gone, the disk is full): the first, second or third, 0 for
\* none. A write that throws leaves the disk as it was.
WriteFailures == 0..3

\* createPatchCache without the write of the ignored document
createPatchCacheNoIgnored(tbl, dsk, f, t, wr) ==
    LET fileChanges == FileChanges(f, t)
        d1 == writeFileSync(dsk, fileChanges.originalState.cacheFilePath,
                            fileChanges.originalState.content)
        d2 == writeFileSync(d1, fileChanges.acceptedChanges.cacheFilePath,
                            fileChanges.acceptedChanges.content)
    IN [hash |-> fileChanges.hash, threw |-> FALSE,
        files |-> (fileChanges.hash :> fileChanges) @@ tbl, disk |-> d2]

\* createPatchCache with the entry put in the table before the files are
\* written
createPatchCacheRegistersFirst(tbl, dsk, f, t, wr) ==
    LET fileChanges == FileChanges(f, t)
        registered == (fileChanges.hash :> fileChanges) @@ tbl
        d1 == writeFileSync(dsk, fileChanges.originalState.cacheFilePath,
                            fileChanges.originalState.content)
        d2 == writeFileSync(d1, fileChanges.acceptedChanges.cacheFilePath,
                            fileChanges.acceptedChanges.content)
        d3 == IF fileChanges.ignoredChanges # undefined
              THEN writeFileSync(d2, fileChanges.ignoredChanges[1].cacheFilePath,
                                 fileChanges.ignoredChanges[1].content)
              ELSE d2
    IN IF wr = 1
       THEN [hash |-> fileChanges.hash, threw |-> TRUE, files |-> registered, disk |-> dsk]
       ELSE IF wr = 2 \/ f.acceptedDiff = null
       THEN [hash |-> fileChanges.hash, threw |-> TRUE, files |-> registered, disk |-> d1]
       ELSE IF wr = 3 /\ fileChanges.ignoredChanges # undefined
       THEN [hash |-> fileChanges.hash, threw |-> TRUE, files |-> registered, disk |-> d2]
       ELSE [hash |-> fileChanges.hash, threw |-> FALSE, files |-> registered, disk |-> d3]

\* createPatchCache(file) at time t: the hash returned, the new table and the
\* new disk. The three writes run in order and the first one that throws
\* ends the call, before the table is written (line 78). acceptedDiff is a
\* string for the type checker only ('as string' at the call): the second
\* writeFileSync throws on null.
createPatchCache(tbl, dsk, f, t, wr) ==
    LET fileChanges == FileChanges(f, t)
        d1 == writeFileSync(dsk, fileChanges.originalState.cacheFilePath,
                            fileChanges.originalState.content)
        d2 == writeFileSync(d1, fileChanges.acceptedChanges.cacheFilePath,
                            fileChanges.acceptedChanges.content)
        d3 == IF fileChanges.ignoredChanges # undefined
              THEN writeFileSync(d2, fileChanges.ignoredChanges[1].cacheFilePath,
                                 fileChanges.ignoredChanges[1].content)
              ELSE d2
    IN IF wr = 1
       THEN [hash |-> fileChanges.hash, threw |-> TRUE, files |-> tbl, disk |-> dsk]
       ELSE IF wr = 2 \/ f.acceptedDiff = null
       THEN [hash |-> fileChanges.hash, threw |-> TRUE, files |-> tbl, disk |-> d1]
       ELSE IF wr = 3 /\ fileChanges.ignoredChanges # undefined
       THEN [hash |-> fileChanges.hash, threw |-> TRUE, files |-> tbl, disk |-> d2]
       ELSE [hash |-> fileChanges.hash, threw |-> FALSE,
             files |-> (fileChanges.hash :> fileChanges) @@ tbl, disk |-> d3]

getFileCache(tbl, hash) == IF hash \in DOMAIN tbl THEN Some(tbl[hash]) ELSE undefined

\* clearFileCache that leaves the file of the ignored changes in place
clearFileCacheKeepsIgnored(tbl, dsk, hash) ==
    LET got == getFileCache(tbl, hash) IN
    IF got = undefined
    THEN [value |-> FALSE, threw |-> FALSE, files |-> tbl, disk |-> dsk]
    ELSE LET e == got[1]
             u1 == unlinkSync(dsk, e.originalState.cacheFilePath)
             u2 == unlinkSync(u1.disk, e.acceptedChanges.cacheFilePath)
         IN [value |-> TRUE, threw |-> u1.threw \/ u2.threw, files |-> tbl,
             disk |-> u2.disk]

\* clearFileCache(hash): the value returned, whether it threw, the new disk.
\* The unlinkSync calls run in order and the first one that throws ends the
\* call; the table is not written.
clearFileCache(tbl, dsk, hash) ==
    LET got == getFileCache(tbl, hash) IN
    IF got = undefined
    THEN [value |-> FALSE, threw |-> FALSE, files |-> tbl, disk |-> dsk]
    ELSE LET e == got[1]
             u1 == unlinkSync(dsk, e.originalState.cacheFilePath)
             u2 == unlinkSync(u1.disk, e.acceptedChanges.cacheFilePath)
             u3 == IF e.ignoredChanges # undefined
                   THEN unlinkSync(u2.disk, e.ignoredChanges[1].cacheFilePath)
                   ELSE [threw |-> FALSE, disk |-> u2.disk]
         IN IF u1.threw
            THEN [value |-> FALSE, threw |-> TRUE, files |-> tbl, disk |-> dsk]
            ELSE IF u2.threw
            THEN [value |-> FALSE, threw |-> TRUE, files |-> tbl, disk |-> u1.disk]
            ELSE IF u3.threw
            THEN [value |-> FALSE, threw |-> TRUE, files |-> tbl, disk |-> u2.disk]
            ELSE [value |-> TRUE, threw |-> FALSE, files |-> tbl, disk |-> u3.disk]

\* The scratch files of an entry
PathsOf(e) ==
    {e.originalState.cacheFilePath, e.acceptedChanges.cacheFilePath}
        \cup {c.cacheFilePath : c \in Range(e.ignoredChanges)}

----------------------------------------------------------------------------
\* The external commands exeCommand runs. ok is the environment's part of the
\* outcome; a command also fails when the tree it meets does not allow it.

\* git checkout <fileName>: the working tree file is restored from the index
GitCheckout(w, x, name, ok) ==
    [ok |-> ok, wt |-> IF ok THEN [w EXCEPT ![name] = x[name]] ELSE w]

\* git apply <path>: all hunks of the patch or none; a hunk already present
\* does not apply, a missing patch file cannot be read
GitApply(w, dsk, path, ok) ==
    LET can == /\ ok
               /\ path \in DOMAIN dsk
               /\ dsk[path] # null
               /\ Range(dsk[path][1].hunks) \cap w[FileNameOf(dsk[path][1].file)] = {}
    IN [ok |-> can,
        wt |-> IF can
               THEN [w EXCEPT ![FileNameOf(dsk[path][1].file)] =
                                  @ \cup Range(dsk[path][1].hunks)]
               ELSE w]

\* git add <fileName>: the index takes the working tree content of the file
GitAdd(w, x, name, ok) ==
    [ok |-> ok, idx |-> IF ok THEN [x EXCEPT ![name] = w[name]] ELSE x]

Call(cmd, name, arg, ok) == [cmd |-> cmd, file |-> name, arg |-> arg, ok |-> ok]

\* ErrorHandler.throw(error) returning to its caller, which resolves the
\* promise: the action goes on to line 50
ErrorHandlerThrowReturns(subscribed) == "add"

\* ErrorHandler.throw(error) reached from the exec callback of exeCommand:
\* the CLI's subscriber ends the process; with no subscriber the error is
\* thrown inside the callback and resolve(mssg) is never reached.
ErrorHandlerThrow(subscribed) == IF subscribed THEN "exited" ELSE "hung"

----------------------------------------------------------------------------
\* The add-diff action (addDiffCommand.ts:18-55)

fileDiff == diff[fi]

NoRet == [op |-> "none", hash |-> undefined, arg |-> undefined,
          known |-> FALSE, threw |-> FALSE, value |-> undefined]

\* The diffs 'git diff' can report: up to MaxFiles files, each with up to
\* MaxHunks hunks, all of them present in the working tree and none staged.
Init ==
    \E n \in 0..MaxFiles : \E nh \in [1..n -> 0..MaxHunks] :
        /\ diff = [i \in 1..n |-> DiffOutputFile(FilePath(i), [k \in 1..nh[i] |-> k])]
        /\ wt = [name \in FileNames |-> IF name <= n THEN 1..nh[name] ELSE {}]
        /\ idx = [name \in FileNames |-> {}]
        /\ diffOutput = undefined
        /\ pc = "start"
        /\ fi = 1
        /\ hi = 1
        /\ file = undefined
        /\ instance = FALSE
        /\ files = <<>>
        /\ disk = <<>>
        /\ now = 0
        /\ calls = <<>>
        /\ ret = NoRet
        /\ issued = {}

\* line 21: no diff found. ErrorHandler.throw runs the subscriber, which ends
\* the process; with no subscriber it throws and the action rejects.
\* subscribed: whether ErrorHandler._subscriber holds a subscriber (the CLI's
\* run() registers one; the command used without it has none).
Start(subscribed) ==
    /\ pc = "start"
    /\ pc' = IF Len(diff) = 0
             THEN (IF subscribed THEN "exited" ELSE "rejected")
             ELSE "classify"
    /\ UNCHANGED <<instance, diffOutput, diff, fi, hi, file, files, disk, now, wt, idx,
                   calls, ret, issued>>

\* the hunks taken from the last one to the first
HunkFromEnd(rec, i) == rec.hunks[Len(rec.hunks) + 1 - i]

\* line 26: the hunk of the i-th iteration of for (const hunk of fileDiff.hunks)
HunkOf(rec, i) == rec.hunks[i]

\* lines 26-31: one hunk is shown and its answer recorded
Confirm(answer) ==
    /\ pc = "classify"
    /\ hi <= Len(fileDiff.hunks)
    /\ diff' = [diff EXCEPT ![fi] = PushHunk(@, HunkOf(@, hi), answer)]
    /\ hi' = hi + 1
    /\ UNCHANGED <<instance, diffOutput, pc, fi, file, files, disk, now, wt, idx, calls,
                   ret, issued>>

\* the for loop of line 22 moves to the next file, or the action returns
NextFile ==
    IF fi < Len(diff)
    THEN fi' = fi + 1 /\ hi' = 1 /\ pc' = "classify"
    ELSE pc' = "done" /\ UNCHANGED <<fi, hi>>

\* the loop of line 26 left after the first hunk
LoopDoneAfterFirst(rec, i) == i > 1 \/ i > Len(rec.hunks)

\* line 26: for (const hunk of fileDiff.hunks) has gone through every hunk
LoopDone(rec, i) == i > Len(rec.hunks)

\* line 33
SkipFile ==
    /\ pc = "classify"
    /\ LoopDone(fileDiff, hi)
    /\ SkipsFile(fileDiff)
    /\ NextFile
    /\ UNCHANGED <<instance, diffOutput, diff, file, files, disk, now, wt, idx, calls,
                   ret, issued>>

\* lines 35-43: the three documents are built and cached, the entry read
\* back. The clock does not advance during one run of the command: every
\* createPatchCache of the run reads the same Date.now(), the case in which
\* its hashes are closest to each other.
CreateCache(wr) ==
    /\ pc = "classify"
    /\ LoopDone(fileDiff, hi)
    /\ ~SkipsFile(fileDiff)
    /\ LET cache == NewCacheStore(instance, files)
           r == createPatchCache(cache.files, disk,
                    [acceptedDiff |-> getAcceptedDiffPatch(fileDiff),
                     filePath |-> fileDiff.file,
                     originalDiff |-> getTotalDiffPatch(fileDiff),
                     ignoredDiff |-> getIgnoredDiffPatch(fileDiff)], now, wr)
       IN /\ instance' = cache.instance
          /\ files' = InstanceFiles(cache, r.files)
          /\ disk' = r.disk
          /\ file' = IF r.threw THEN file ELSE getFileCache(r.files, r.hash)
          /\ issued' = IF r.threw THEN issued ELSE issued \cup {r.hash}
          /\ calls' = Append(calls, Call("create", fileDiff.fileName, r.hash, ~r.threw))
          /\ pc' = IF r.threw THEN "rejected" ELSE "checkout"
    /\ UNCHANGED <<diffOutput, diff, fi, hi, now, wt, idx, ret>>

\* line 45: git checkout <fileName>; a failure is dropped (onError = () => false)
Checkout(ok) ==
    /\ pc = "checkout"
    /\ LET r == GitCheckout(wt, idx, fileDiff.fileName, ok)
       IN /\ wt' = r.wt
          /\ calls' = Append(calls, Call("checkout", fileDiff.fileName, "", r.ok))
    /\ pc' = "applyAccepted"
    /\ UNCHANGED <<instance, diffOutput, diff, fi, hi, file, files, disk, now, idx, ret, issued>>

\* line 46: git apply <accepted patch>; a failure runs the onError callback
ApplyAccepted(ok) ==
    /\ pc = "applyAccepted"
    /\ LET r == GitApply(wt, disk, file[1].acceptedChanges.cacheFilePath, ok)
       IN /\ wt' = r.wt
          /\ calls' = Append(calls, Call("apply", fileDiff.fileName, "-ac.patch", r.ok))
          /\ pc' = IF r.ok THEN "add" ELSE "recover"
    /\ UNCHANGED <<instance, diffOutput, diff, fi, hi, file, files, disk, now, idx, ret, issued>>

\* lines 47-48 and exe-service 33: the callback applies the original patch
\* (its own failure is dropped), returns true, and ErrorHandler.throw(e) runs
Recover(ok, subscribed) ==
    /\ pc = "recover"
    /\ LET r == GitApply(wt, disk, file[1].originalState.cacheFilePath, ok)
       IN /\ wt' = r.wt
          /\ calls' = Append(calls, Call("apply", fileDiff.fileName, "-or.patch", r.ok))
    /\ pc' = ErrorHandlerThrow(subscribed)
    /\ UNCHANGED <<instance, diffOutput, diff, fi, hi, file, files, disk, now, idx, ret, issued>>

\* git add <fileName>, after which the loop goes on to the next file at once
AddAndNextFile(ok) ==
    /\ pc = "add"
    /\ LET r == GitAdd(wt, idx, fileDiff.fileName, ok)
       IN /\ idx' = r.idx
          /\ calls' = Append(calls, Call("add", fileDiff.fileName, "", r.ok))
    /\ NextFile
    /\ UNCHANGED <<instance, diffOutput, diff, file, files, disk, now, wt, ret, issued>>

\* line 50: git add <fileName>
Add(ok) ==
    /\ pc = "add"
    /\ LET r == GitAdd(wt, idx, fileDiff.fileName, ok)
       IN /\ idx' = r.idx
          /\ calls' = Append(calls, Call("add", fileDiff.fileName, "", r.ok))
    /\ pc' = IF file[1].ignoredChanges # undefined THEN "applyIgnored" ELSE "clear"
    /\ UNCHANGED <<instance, diffOutput, diff, fi, hi, file, files, disk, now, wt, ret, issued>>

\* line 51: git apply <ignored patch>
ApplyIgnored(ok) ==
    /\ pc = "applyIgnored"
    /\ LET r == GitApply(wt, disk, file[1].ignoredChanges[1].cacheFilePath, ok)
       IN /\ wt' = r.wt
          /\ calls' = Append(calls, Call("apply", fileDiff.fileName, "-ig.patch", r.ok))
    /\ pc' = "clear"
    /\ UNCHANGED <<instance, diffOutput, diff, fi, hi, file, files, disk, now, idx, ret, issued>>

\* line 53: cache.clearFileCache(file.hash)
ClearCache ==
    /\ pc = "clear"
    /\ LET r == clearFileCache(files, disk, file[1].hash)
       IN /\ files' = r.files
          /\ disk' = r.disk
          /\ calls' = Append(calls, Call("clear", fileDiff.fileName, file[1].hash, ~r.threw))
          /\ IF r.threw THEN pc' = "rejected" /\ UNCHANGED <<fi, hi>> ELSE NextFile
    /\ UNCHANGED <<instance, diffOutput, diff, file, now, wt, idx, ret, issued>>

Next ==
    \/ \E subscribed \in BOOLEAN : Start(subscribed)
    \/ \E answer \in BOOLEAN : Confirm(answer)
    \/ SkipFile
    \/ \E wr \in WriteFailures : CreateCache(wr)
    \/ \E ok \in BOOLEAN : Checkout(ok)
    \/ \E ok \in BOOLEAN : ApplyAccepted(ok)
    \/ \E ok \in BOOLEAN, subscribed \in BOOLEAN : Recover(ok, subscribed)
    \/ \E ok \in BOOLEAN : Add(ok)
    \/ \E ok \in BOOLEAN : ApplyIgnored(ok)
    \/ ClearCache

Spec == Init /\ [][Next]_vars

\* The action under the scheduling of the event loop: every prompt is
\* answered and every external command ends, so a step that can be taken is
\* taken.
FairSpec == Init /\ [][Next]_vars /\ WF_vars(Next)

----------------------------------------------------------------------------
\* CacheStore used on its own: any sequence of constructions and of
\* createPatchCache, getFileCache and clearFileCache calls, in a scratch
\* directory that can be written and from which files can also be removed
\* from outside.

\* A record classified as the action classifies it: the first k hunks
\* accepted, the others ignored (k = MaxHunks: no ignored document).
Classified(name, k) ==
    [DiffOutputFile(FilePath(name), [i \in 1..MaxHunks |-> i]) EXCEPT
        !.acceptedHunks = [i \in 1..k |-> i],
        !.ignoredHunks = [i \in 1..(MaxHunks - k) |-> k + i]]

\* The argument the action passes to createPatchCache (lines 37-42)
CacheArg(rec) ==
    [acceptedDiff |-> getAcceptedDiffPatch(rec),
     filePath |-> rec.file,
     originalDiff |-> getTotalDiffPatch(rec),
     ignoredDiff |-> getIgnoredDiffPatch(rec)]

CacheInit ==
    /\ diff = <<>>
    /\ wt = [name \in FileNames |-> {}]
    /\ idx = [name \in FileNames |-> {}]
    /\ diffOutput = undefined
    /\ pc = "api"
    /\ fi = 1
    /\ hi = 1
    /\ file = undefined
    /\ instance = FALSE
    /\ files = <<>>
    /\ disk = <<>>
    /\ now = 0
    /\ calls = <<>>
    /\ ret = NoRet
    /\ issued = {}

\* new CacheStore(): a handle is constructed; ret holds its table
ApiNew ==
    /\ pc = "api"
    /\ LET cache == NewCacheStore(instance, files)
       IN /\ instance' = cache.instance
          /\ files' = cache.table
          /\ ret' = [NoRet EXCEPT !.op = "new", !.known = cache.same,
                                  !.value = cache.files]
    /\ UNCHANGED <<diffOutput, diff, pc, fi, hi, file, disk, now, wt, idx, calls, issued>>

\* The methods are called through a handle constructed before. The scratch
\* directory can be written: no writeFileSync of createPatchCache throws.
ApiCreate(name, k, t) ==
    /\ pc = "api"
    /\ instance
    /\ LET f == CacheArg(Classified(name, k))
           r == createPatchCache(files, disk, f, t, 0)
       IN /\ Cardinality(DOMAIN files \cup {r.hash}) <= MaxEntries
          /\ now' = t
          /\ files' = r.files
          /\ disk' = r.disk
          /\ issued' = IF r.threw THEN issued ELSE issued \cup {r.hash}
          /\ ret' = [op |-> "create", hash |-> r.hash, arg |-> f,
                     known |-> r.hash \in DOMAIN files, threw |-> r.threw,
                     value |-> IF r.threw THEN undefined ELSE r.hash]
    /\ UNCHANGED <<instance, diffOutput, diff, pc, fi, hi, file, wt, idx, calls>>

ApiGet(hash) ==
    /\ pc = "api"
    /\ instance
    /\ ret' = [op |-> "get", hash |-> hash, arg |-> undefined,
               known |-> hash \in DOMAIN files, threw |-> FALSE,
               value |-> getFileCache(files, hash)]
    /\ UNCHANGED <<instance, diffOutput, diff, pc, fi, hi, file, files, disk, now, wt, idx, calls, issued>>

ApiClear(hash) ==
    /\ pc = "api"
    /\ instance
    /\ LET r == clearFileCache(files, disk, hash)
       IN /\ files' = r.files
          /\ disk' = r.disk
          /\ ret' = [op |-> "clear", hash |-> hash, arg |-> undefined,
                     known |-> hash \in DOMAIN files, threw |-> r.threw,
                     value |-> r.value]
    /\ UNCHANGED <<instance, diffOutput, diff, pc, fi, hi, file, now, wt, idx, calls, issued>>

\* a scratch file is removed by something other than the CacheStore
ExternalUnlink(path) ==
    /\ pc = "api"
    /\ path \in DOMAIN disk
    /\ disk' = unlinkSync(disk, path).disk
    /\ ret' = [NoRet EXCEPT !.op = "unlink"]
    /\ UNCHANGED <<instance, diffOutput, diff, pc, fi, hi, file, files, now, wt, idx, calls, issued>>

CacheNext ==
    \/ ApiNew
    \/ \E name \in FileNames, k \in {1, MaxHunks}, t \in now..MaxTime : ApiCreate(name, k, t)
    \/ \E hash \in Hashes : ApiGet(hash)
    \/ \E hash \in Hashes : ApiClear(hash)
    \/ \E path \in DOMAIN disk : ExternalUnlink(path)

CacheSpec == CacheInit /\ [][CacheNext]_vars

----------------------------------------------------------------------------
\* Diff text. A string is the sequence of its pieces: NL is the newline
\* character, every other piece is a run of characters without a newline
\* (a tuple whose first component is the text the run begins with). The
\* empty string is <<>>.

NL == <<"\n">>

\* 'diff --git ', the only piece of a diff that begins with 'diff --git'
DiffGit == <<"diff --git ">>

\* The lines 'git diff' prints for a file and for its k-th hunk
DiffGitLine(name) == <<DiffGit, FilePath(name)>>
IndexLine(name) == << <<"index ", name>> >>
AFileLine(name) == << <<"--- a/", name>> >>
BFileLine(name) == << <<"+++ b/", name>> >>
HunkMarker(k) == << <<"@@", k>> >>
HunkBody(k) == << <<"+", k>> >>

\* s.split('\n') from position i on: the line that begins at i goes to the
\* next newline, or to the end when there is none
RECURSIVE splitFrom(_, _)
splitFrom(s, i) ==
    IF \A j \in i..Len(s) : s[j] # NL
    THEN <<SubSeq(s, i, Len(s))>>
    ELSE LET j == CHOOSE j \in i..Len(s) :
                      s[j] = NL /\ \A k \in i..(j - 1) : s[k] # NL
         IN <<SubSeq(s, i, j - 1)>> \o splitFrom(s, j + 1)

\* s.split('\n')
split(s) == splitFrom(s, 1)

\* list.join(sep)
RECURSIVE join(_, _)
join(list, sep) ==
    IF Len(list) = 0 THEN <<>>
    ELSE IF Len(list) = 1 THEN Head(list)
    ELSE Head(list) \o <<sep>> \o join(Tail(list), sep)

\* the strings of a list one after the other
RECURSIVE Flatten(_)
Flatten(ss) == IF Len(ss) = 0 THEN <<>> ELSE Head(ss) \o Flatten(Tail(ss))

endsWith(s, piece) == Len(s) > 0 /\ s[Len(s)] = piece

\* line.startsWith('diff --git'), line.startsWith('@@')
startsWithDiffGit(line) == Len(line) > 0 /\ line[1] = DiffGit
startsWithAtAt(line) == Len(line) > 0 /\ line[1][1] = "@@"

\* s.replace(piece, ''): the first occurrence is removed
RECURSIVE replace(_, _)
replace(s, piece) ==
    IF s = <<>> THEN <<>>
    ELSE IF Head(s) = piece THEN Tail(s)
    ELSE <<Head(s)>> \o replace(Tail(s), piece)

\* lines[j]: past the end it is undefined, which the template literals of
\* DiffOutputFile print as the text 'undefined'
LineAt(lines, j) == IF j <= Len(lines) THEN lines[j] ELSE << <<"undefined">> >>

\* new DiffOutputFile({file, fileName, index, aFile, bFile, hunks: []}) as
\* parseGitDiffOutput builds it from the line at i
NewFile(lines, i) ==
    LET path == replace(lines[i], DiffGit) IN
    [file |-> path,
     fileName |-> IF Len(path) > 0 /\ Len(path[1]) = 4
                  THEN FileNameOf(path[1]) ELSE path,
     index |-> LineAt(lines, i + 1),
     aFile |-> LineAt(lines, i + 2),
     bFile |-> LineAt(lines, i + 3),
     hunks |-> <<>>, acceptedHunks |-> <<>>, ignoredHunks |-> <<>>]

\* the push made on the first record of the list instead of the last
PushCurrentHunkToFirst(parsedFiles, currentHunk) ==
    IF Len(parsedFiles) = 0 THEN parsedFiles
    ELSE [parsedFiles EXCEPT ![1].hunks = Append(@, currentHunk)]

\* lastFile.hunks.push(currentHunk), if there is a last file
PushCurrentHunk(parsedFiles, currentHunk) ==
    IF Len(parsedFiles) = 0 THEN parsedFiles
    ELSE [parsedFiles EXCEPT ![Len(parsedFiles)].hunks = Append(@, currentHunk)]

IsNotEmpty(hunk) == Len(hunk) > 0

\* the for loop of parseGitDiffOutput from line i on, then the last push
\* and the filter of the empty hunks
RECURSIVE ParseLines(_, _, _, _)
ParseLines(lines, i, parsedFiles, currentHunk) ==
    IF i > Len(lines)
    THEN LET all == PushCurrentHunk(parsedFiles, currentHunk) IN
         [f \in DOMAIN all |->
             [all[f] EXCEPT !.hunks = SelectSeq(@, IsNotEmpty)]]
    ELSE IF startsWithDiffGit(lines[i])
    THEN ParseLines(lines, i + 4,
                    Append(PushCurrentHunk(parsedFiles, currentHunk),
                           NewFile(lines, i)),
                    <<>>)
    ELSE IF startsWithAtAt(lines[i])
    THEN ParseLines(lines, i + 1,
                    PushCurrentHunk(parsedFiles, currentHunk), lines[i])
    ELSE ParseLines(lines, i + 1, parsedFiles, currentHunk \o <<NL>> \o lines[i])

parseGitDiffOutput(text) == ParseLines(split(text), 1, <<>>, <<>>)

\* the construction with the hunks put one after the other, no newline between
PatchTextNoSeparator(rec, hs) ==
    LET patch == <<DiffGit>> \o rec.file \o <<NL>> \o rec.index
                     \o <<NL>> \o rec.aFile \o <<NL>> \o rec.bFile
                     \o <<NL>> \o Flatten(hs)
    IN IF endsWith(patch, NL) THEN patch ELSE patch \o <<NL>>

\* The construction the three get...DiffPatch methods share: the four
\* header lines, the hunks joined by newlines, a newline added if none ends it
PatchText(rec, hs) ==
    LET patch == <<DiffGit>> \o rec.file \o <<NL>> \o rec.index
                     \o <<NL>> \o rec.aFile \o <<NL>> \o rec.bFile
                     \o <<NL>> \o join(hs, NL)
    IN IF endsWith(patch, NL) THEN patch ELSE patch \o <<NL>>

getTotalDiffPatchText(rec) == Str(PatchText(rec, rec.hunks))

getAcceptedDiffPatchTextAlways(rec) == Str(PatchText(rec, rec.acceptedHunks))

getAcceptedDiffPatchText(rec) ==
    IF Len(rec.acceptedHunks) = 0 THEN null
    ELSE Str(PatchText(rec, rec.acceptedHunks))

getIgnoredDiffPatchTextAll(rec) ==
    IF Len(rec.ignoredHunks) = 0 THEN null
    ELSE Str(PatchText(rec, rec.hunks))

getIgnoredDiffPatchText(rec) ==
    IF Len(rec.ignoredHunks) = 0 THEN null
    ELSE Str(PatchText(rec, rec.ignoredHunks))

----------------------------------------------------------------------------
\* Parser and reconstructor on the text of a diff: the text is parsed, the
\* hunks of one of its files are classified, the three documents of that
\* file are built and each can be parsed again.

\* The lines of hunk k of a file. blankEnd: the hunk ends with an empty
\* context line that git printed as an empty line (diff.suppressBlankEmpty).
HunkLines(k, blankEnd) ==
    <<HunkMarker(k), HunkBody(k)>> \o (IF blankEnd THEN << <<>> >> ELSE <<>>)

\* The block of a file with n hunks
FileLines(name, n, suppressBlankEmpty) ==
    <<DiffGitLine(name), IndexLine(name), AFileLine(name), BFileLine(name)>>
        \o Flatten([k \in 1..n |-> HunkLines(k, suppressBlankEmpty /\ k = n)])

\* What 'git diff' prints for the files 1..Len(nh), file i with nh[i] hunks:
\* every line ends with a newline, and nothing is printed for no file
DiffText(nh, suppressBlankEmpty) ==
    IF Len(nh) = 0 THEN <<>>
    ELSE join(Flatten([i \in DOMAIN nh |-> FileLines(i, nh[i], suppressBlankEmpty)]),
              NL) \o <<NL>>

PatchOps == {"getTotalDiffPatch", "getAcceptedDiffPatch", "getIgnoredDiffPatch"}

ParseInit ==
    /\ \E n \in 0..MaxFiles : \E nh \in [1..n -> 0..MaxHunks] :
       \E suppressBlankEmpty \in BOOLEAN :
           diffOutput = DiffText(nh, suppressBlankEmpty)
    /\ diff = <<>>
    /\ wt = [name \in FileNames |-> {}]
    /\ idx = [name \in FileNames |-> {}]
    /\ pc = "text"
    /\ fi = 1
    /\ hi = 1
    /\ file = undefined
    /\ instance = FALSE
    /\ files = <<>>
    /\ disk = <<>>
    /\ now = 0
    /\ calls = <<>>
    /\ ret = NoRet
    /\ issued = {}

\* DiffService.parseGitDiffOutput on the text
Parse ==
    /\ pc = "text"
    /\ diff' = parseGitDiffOutput(diffOutput)
    /\ pc' = "parsed"
    /\ UNCHANGED <<instance, diffOutput, fi, hi, file, files, disk, now, wt, idx, calls,
                   ret, issued>>

\* the record whose hunks are classified (lines 26-31, by Confirm)
PickFile(f) ==
    /\ pc = "parsed"
    /\ f \in DOMAIN diff
    /\ fi' = f
    /\ hi' = 1
    /\ pc' = "classify"
    /\ UNCHANGED <<instance, diffOutput, diff, file, files, disk, now, wt, idx, calls,
                   ret, issued>>

\* lines 37-42: one of the three documents of the classified record
BuildPatch(op) ==
    /\ pc = "classify"
    /\ hi > Len(fileDiff.hunks)
    /\ ret' = [NoRet EXCEPT
                 !.op = op,
                 !.arg = fi,
                 !.value = CASE op = "getTotalDiffPatch" ->
                                    getTotalDiffPatchText(fileDiff)
                             [] op = "getAcceptedDiffPatch" ->
                                    getAcceptedDiffPatchText(fileDiff)
                             [] op = "getIgnoredDiffPatch" ->
                                    getIgnoredDiffPatchText(fileDiff)]
    /\ UNCHANGED <<instance, diffOutput, diff, pc, fi, hi, file, files, disk, now, wt,
                   idx, calls, issued>>

\* the document just built is given to the parser
Reparse ==
    /\ pc = "classify"
    /\ ret.op \in PatchOps
    /\ ret.value # null
    /\ ret' = [NoRet EXCEPT !.op = "parse", !.arg = ret.op,
                            !.value = parseGitDiffOutput(ret.value[1])]
    /\ UNCHANGED <<instance, diffOutput, diff, pc, fi, hi, file, files, disk, now, wt,
                   idx, calls, issued>>

ParseNext ==
    \/ Parse
    \/ \E f \in 1..MaxFiles : PickFile(f)
    \/ \E answer \in BOOLEAN : Confirm(answer)
    \/ \E op \in PatchOps : BuildPatch(op)
    \/ Reparse

ParseSpec == ParseInit /\ [][ParseNext]_vars

----------------------------------------------------------------------------
\* Vocabulary of the properties

Accepted(f) == Range(diff[f].acceptedHunks)
Ignored(f) == Range(diff[f].ignoredHunks)
AllHunks(f) == Range(diff[f].hunks)

\* the calls issued for file f of the diff
CallsOf(f) == {k \in DOMAIN calls : calls[k].file = diff[f].fileName}

IsCall(k, cmd, arg) == calls[k].cmd = cmd /\ calls[k].arg = arg

\* the accepted patch of file f was applied and the apply failed
AcceptedApplyFailed(f) ==
    \E k \in CallsOf(f) : IsCall(k, "apply", "-ac.patch") /\ ~calls[k].ok

\* step 5 of file f is over: the accepted apply succeeded, or the recovery ran
Step5Done(f) ==
    \E k \in CallsOf(f) :
        /\ IsCall(k, "apply", "-ac.patch")
        /\ \/ calls[k].ok
           \/ \E j \in CallsOf(f) : j > k /\ IsCall(j, "apply", "-or.patch")

\* the protocol of file f ran to its last step
Finished(f) == \E k \in CallsOf(f) : calls[k].cmd = "clear"

AllOk(f) == \A k \in CallsOf(f) : calls[k].ok

\* the for loop of lines 26-31 is over for file f
ClassificationDone(f) ==
    /\ pc # "start"
    /\ \/ f < fi
       \/ f = fi /\ (pc # "classify" \/ hi > Len(diff[f].hunks))

\* the command has ended: returned, rejected, ended the process, or is left
\* waiting on a promise that never settles
Stopped == pc \in {"done", "rejected", "exited", "hung"}

RECURSIVE IsSubseq(_, _)
IsSubseq(s, t) ==
    IF s = <<>> THEN TRUE
    ELSE IF t = <<>> THEN FALSE
    ELSE IF Head(s) = Head(t) THEN IsSubseq(Tail(s), Tail(t))
    ELSE IsSubseq(s, Tail(t))


\* The lines of the diff text, and the block of the f-th file in them: from
\* its 'diff --git' line to the line before the next one, as in the text
SourceLines == split(diffOutput)

BlockStarts(lines) == {i \in DOMAIN lines : startsWithDiffGit(lines[i])}

BlockStart(lines, f) ==
    LET starts == BlockStarts(lines) IN
    CHOOSE i \in starts : Cardinality({j \in starts : j < i}) = f - 1

BlockEnd(lines, f) ==
    LET later == {j \in BlockStarts(lines) : j > BlockStart(lines, f)} IN
    IF later = {} THEN Len(lines)
    ELSE (CHOOSE j \in later : \A k \in later : j <= k) - 1

BlockText(lines, f) ==
    join(SubSeq(lines, BlockStart(lines, f), BlockEnd(lines, f)), NL)
        \o (IF BlockEnd(lines, f) < Len(lines) THEN <<NL>> ELSE <<>>)

\* the '@@' lines of the block of the f-th file, and the text that goes from
\* the j-th of them to the line before the next one (or to the end of the block)
MarkersOf(lines, f) ==
    {i \in (BlockStart(lines, f) + 4)..BlockEnd(lines, f) : startsWithAtAt(lines[i])}

HunkTextsOf(lines, f) ==
    LET markers == MarkersOf(lines, f)
        nth(j) == CHOOSE i \in markers : Cardinality({m \in markers : m < i}) = j - 1
        last(j) == IF j = Cardinality(markers) THEN BlockEnd(lines, f)
                   ELSE nth(j + 1) - 1
    IN [j \in 1..Cardinality(markers) |-> join(SubSeq(lines, nth(j), last(j)), NL)]

\* the trailing-newline normalisation: one newline at the end
RECURSIVE StripNL(_)
StripNL(s) == IF endsWith(s, NL) THEN StripNL(SubSeq(s, 1, Len(s) - 1)) ELSE s

OneTrailingNL(s) == StripNL(s) \o <<NL>>

\* the list of hunks a document of fileDiff is built from
SelectedHunks(op) ==
    CASE op = "getTotalDiffPatch" -> fileDiff.hunks
      [] op = "getAcceptedDiffPatch" -> fileDiff.acceptedHunks
      [] op = "getIgnoredDiffPatch" -> fileDiff.ignoredHunks

\* a document was built
Built == ret.op \in PatchOps /\ ret.value # null


\* the external calls and the clear issued for file f, in the order of issue
RECURSIVE CommandsOf(_, _)
CommandsOf(f, k) ==
    IF k = 0 THEN <<>>
    ELSE IF k \in CallsOf(f) /\ calls[k].cmd # "create"
    THEN Append(CommandsOf(f, k - 1),
                <<calls[k].cmd, IF calls[k].cmd = "clear" THEN "" ELSE calls[k].arg>>)
    ELSE CommandsOf(f, k - 1)

\* the calls of the protocol of file f (steps 4 to 8), given the outcome of
\* the apply of the accepted patch
Protocol(f) ==
    << <<"checkout", "">>, <<"apply", "-ac.patch">> >>
        \o (IF AcceptedApplyFailed(f) THEN << <<"apply", "-or.patch">> >> ELSE <<>>)
        \o << <<"add", "">> >>
        \o (IF Ignored(f) # {} THEN << <<"apply", "-ig.patch">> >> ELSE <<>>)
        \o << <<"clear", "">> >>

IsPrefix(s, t) == Len(s) <= Len(t) /\ s = SubSeq(t, 1, Len(s))

\* the work on file f is over: the loop is past it, or the command has ended
Past(f) == ClassificationDone(f) /\ (f < fi \/ Stopped)

----------------------------------------------------------------------------
\* C1: whenever the apply of the accepted patch fails, the recovery leaves
\* the working tree of the file with all its hunks; after step 5 the working
\* tree holds all the hunks or exactly the accepted ones, never anything else.
C1_RecoveryRestoresOriginal ==
    \A f \in DOMAIN diff :
        Step5Done(f) =>
            /\ wt[diff[f].fileName] \in {AllHunks(f), Accepted(f)}
            /\ AcceptedApplyFailed(f) => wt[diff[f].fileName] = AllHunks(f)

\* C2: for a file whose protocol ran with every external call succeeding,
\* the index holds exactly the accepted hunks and the working tree the
\* accepted and the rejected hunks.
C2_IndexAcceptedTreeAll ==
    \A f \in DOMAIN diff :
        (Finished(f) /\ AllOk(f)) =>
            /\ Accepted(f) # {}
            /\ idx[diff[f].fileName] = Accepted(f)
            /\ wt[diff[f].fileName] = Accepted(f) \cup Ignored(f)
            /\ idx[diff[f].fileName] \cap Ignored(f) = {}

C2_Witness ==
    \E f \in DOMAIN diff :
        Finished(f) /\ AllOk(f) /\ Accepted(f) # {} /\ Ignored(f) # {}

\* C3: once the classification loop of a file is over, the two lists
\* partition its hunks: the lengths add up, no hunk is in both, and each
\* list is a subsequence of hunks in the same order.
C3_Partition ==
    \A f \in DOMAIN diff :
        ClassificationDone(f) =>
            /\ Len(diff[f].acceptedHunks) + Len(diff[f].ignoredHunks) = Len(diff[f].hunks)
            /\ Accepted(f) \cap Ignored(f) = {}
            /\ IsSubseq(diff[f].acceptedHunks, diff[f].hunks)
            /\ IsSubseq(diff[f].ignoredHunks, diff[f].hunks)

C3_Witness ==
    \E f \in DOMAIN diff :
        /\ ClassificationDone(f)
        /\ Len(diff[f].acceptedHunks) >= 1
        /\ Len(diff[f].ignoredHunks) >= 1

\* C4: when every hunk of the file was rejected, the step that follows the
\* classification changes neither the cache table nor the scratch directory,
\* issues no call, leaves working tree and index alone, and moves to the
\* next file (or ends the command after the last file).
C4_AllRejectedSkips ==
    [][(/\ pc = "classify"
        /\ hi > Len(fileDiff.hunks)
        /\ Len(fileDiff.acceptedHunks) = 0)
       => /\ UNCHANGED <<files, disk, calls, wt, idx, issued>>
          /\ IF fi < Len(diff)
             THEN fi' = fi + 1 /\ pc' = "classify"
             ELSE pc' = "done"]_vars

C4_Witness ==
    \E f \in DOMAIN diff :
        /\ f < fi
        /\ pc = "classify"
        /\ Len(diff[f].hunks) >= 1
        /\ Len(diff[f].ignoredHunks) = Len(diff[f].hunks)
        /\ CallsOf(f) = {}
    /\ files = <<>>

\* C5: a failed apply of the accepted patch of one file does not abort the
\* command: when the command has ended, every file after that one (with a
\* hunk to ask about) has been classified.
C5_FailedApplyDoesNotAbort ==
    \A f \in DOMAIN diff :
        (Stopped /\ AcceptedApplyFailed(f)) =>
            \A g \in DOMAIN diff :
                (g > f /\ Len(diff[g].hunks) >= 1) => ClassificationDone(g)

\* C6: every cache entry the command created has been cleared when the
\* command has ended: clearFileCache was called with its hash and none of
\* its scratch files is left.
C6_EveryEntryCleared ==
    Stopped =>
        \A k \in DOMAIN calls :
            (calls[k].cmd = "create" /\ calls[k].ok) =>
                /\ \E j \in DOMAIN calls :
                       j > k /\ calls[j].cmd = "clear" /\ calls[j].arg = calls[k].arg
                /\ \A path \in DOMAIN disk : path[1] # calls[k].arg

\* C7: right after createPatchCache, getFileCache of the returned hash gives
\* an entry with that hash, with two scratch files (-or, -ac) when no
\* ignored document was passed and three (-ig too) when one was, each on
\* disk with the document passed; a hash never returned is not found.
C7_CreateThenLookup ==
    /\ (ret.op = "create" /\ ~ret.threw) =>
        LET got == getFileCache(files, ret.value)
            h == ret.value
        IN /\ got # undefined
           /\ got[1].hash = h
           /\ PathsOf(got[1]) =
                  {<<h, "-or.patch">>, <<h, "-ac.patch">>} \cup
                  (IF ret.arg.ignoredDiff # undefined THEN {<<h, "-ig.patch">>} ELSE {})
           /\ PathsOf(got[1]) \subseteq DOMAIN disk
           /\ disk[<<h, "-or.patch">>] = ret.arg.originalDiff
           /\ disk[<<h, "-ac.patch">>] = ret.arg.acceptedDiff
           /\ ret.arg.ignoredDiff # undefined =>
                  disk[<<h, "-ig.patch">>] = ret.arg.ignoredDiff
    /\ \A h \in Hashes \ issued : getFileCache(files, h) = undefined

C7_Witness ==
    /\ ret.op = "create"
    /\ ~ret.threw
    /\ ret.arg.ignoredDiff # undefined
    /\ Cardinality(PathsOf(files[ret.value])) = 3

\* C8: after clearFileCache of a known hash the entry is gone from the table
\* (getFileCache finds nothing), and so every entry of the table has all its
\* scratch files on disk.
C8_ClearRemovesEntry ==
    /\ \A k \in DOMAIN calls :
           (calls[k].cmd = "clear" /\ calls[k].ok) =>
               getFileCache(files, calls[k].arg) = undefined
    /\ \A h \in DOMAIN files : PathsOf(files[h]) \subseteq DOMAIN disk

\* C9: clearFileCache returns false and changes nothing for an unknown hash,
\* and returns true for every known hash.
C9_ClearReturnValue ==
    [][ret'.op = "clear" =>
           IF ret'.hash \in DOMAIN files
           THEN ~ret'.threw /\ ret'.value = TRUE
           ELSE ~ret'.threw /\ ret'.value = FALSE /\ UNCHANGED <<files, disk>>]_vars

\* C10: clearFileCache of a known hash does not raise when a scratch file of
\* the entry is already gone (some are, some are still there), and deletes
\* the files that are left.
C10_ClearToleratesMissingFile ==
    [][(/\ ret'.op = "clear"
        /\ ret'.hash \in DOMAIN files
        /\ PathsOf(files[ret'.hash]) \ DOMAIN disk # {}
        /\ PathsOf(files[ret'.hash]) \cap DOMAIN disk # {})
       => /\ ~ret'.threw
          /\ PathsOf(files[ret'.hash]) \cap DOMAIN disk' = {}]_vars

\* C11: every createPatchCache returns a hash that no earlier call of the
\* process has returned, also for the same filePath; so a create never
\* replaces the table entry or a scratch file of an earlier entry.
C11_HashUniquePerCall ==
    [][(ret'.op = "create" /\ ~ret'.threw) =>
           /\ ret'.hash \notin issued
           /\ ret'.hash \notin DOMAIN files
           /\ \A path \in DOMAIN disk : disk'[path] = disk[path]]_vars

\* C12: parsing a diff text gives one record per file block, and the total
\* document of each record is its block of the text (diff --git line, the
\* three header lines, all the hunks) byte for byte, once both end with
\* exactly one newline.
C12_RoundTrip ==
    /\ pc # "text" => Len(diff) = Cardinality(BlockStarts(SourceLines))
    /\ ret.op = "getTotalDiffPatch" =>
           /\ ret.value # null
           /\ OneTrailingNL(ret.value[1]) =
                  OneTrailingNL(BlockText(SourceLines, ret.arg))

C12_Witness ==
    /\ ret.op = "getTotalDiffPatch"
    /\ Len(diff) >= 2
    /\ ret.arg = 1
    /\ Len(fileDiff.hunks) >= 2
    /\ ret.value[1] # BlockText(SourceLines, ret.arg)

\* C13: the document built from a non-empty accepted or ignored list of a
\* record (whose hunks all begin with their @@ line), parsed again, gives
\* exactly one record, whose hunks are the hunks of the list, element for
\* element and in the same order.
C13_ReconstructionParsesBack ==
    (/\ ret.op = "parse"
     /\ ret.arg \in {"getAcceptedDiffPatch", "getIgnoredDiffPatch"}
     /\ \A h \in Range(fileDiff.hunks) : startsWithAtAt(h)) =>
        /\ Len(ret.value) = 1
        /\ ret.value[1].hunks = SelectedHunks(ret.arg)

\* C14: every document ends with exactly one newline: with one, and not
\* with two.
C14_OneTrailingNewline ==
    Built =>
        /\ endsWith(ret.value[1], NL)
        /\ ~endsWith(SubSeq(ret.value[1], 1, Len(ret.value[1]) - 1), NL)

\* C15: every document begins with the four header lines of the file as
\* they stand in the diff text ('diff --git <filePath>', index line, a-file
\* line, b-file line) and goes on with the hunks of its list, in the order
\* of the list, which is the order of hunks, and with no other hunk: the @@
\* line of a hunk is in the document exactly when the hunk is in the list.
C15_HeadersThenSelectedHunks ==
    Built =>
        LET document == ret.value[1]
            lines == split(document)
            start == BlockStart(SourceLines, ret.arg)
            header == SubSeq(SourceLines, start, start + 3)
            selected == SelectedHunks(ret.op)
        IN /\ Len(lines) >= 4
           /\ SubSeq(lines, 1, 4) = header
           /\ lines[1] = <<DiffGit>> \o fileDiff.file
           /\ \A h \in Range(fileDiff.hunks) :
                  startsWithAtAt(h) =>
                      (split(h)[1] \in Range(lines) <=> h \in Range(selected))
           /\ StripNL(document) = StripNL(join(header \o selected, NL))
           /\ IsSubseq(selected, fileDiff.hunks)

C15_Witness ==
    /\ Built
    /\ ret.op = "getIgnoredDiffPatch"
    /\ Len(fileDiff.acceptedHunks) >= 1
    /\ Len(diff) >= 2

\* C16: getAcceptedDiffPatch returns null exactly when acceptedHunks is
\* empty, and getIgnoredDiffPatch exactly when ignoredHunks is empty.
C16_NullIffEmptyList ==
    /\ ret.op = "getAcceptedDiffPatch" =>
           (ret.value = null <=> Len(fileDiff.acceptedHunks) = 0)
    /\ ret.op = "getIgnoredDiffPatch" =>
           (ret.value = null <=> Len(fileDiff.ignoredHunks) = 0)

C16_Witness ==
    /\ ret.op = "getAcceptedDiffPatch"
    /\ ret.value = null
    /\ Len(fileDiff.ignoredHunks) >= 1

\* C17: getTotalDiffPatch returns null when the record has no hunk, and a
\* document otherwise.
C17_TotalNullIffNoHunks ==
    ret.op = "getTotalDiffPatch" =>
        (ret.value = null <=> Len(fileDiff.hunks) = 0)

\* C18: for a file with an accepted hunk the calls are issued in this order
\* and no other: git checkout, git apply of the accepted patch, git apply of
\* the original patch if and only if that apply failed, git add, git apply
\* of the ignored patch if and only if there is an ignored document, and the
\* clear of the cache entry. At every moment the calls issued so far are the
\* beginning of that list, and when the work on the file is over they are
\* the whole list.
C18_CallOrder ==
    \A f \in DOMAIN diff :
        LET issuedCalls == CommandsOf(f, Len(calls)) IN
        /\ IsPrefix(issuedCalls, Protocol(f))
        /\ (Past(f) /\ Accepted(f) # {}) => issuedCalls = Protocol(f)

\* C19: git apply of the accepted patch is issued only after a git checkout
\* of the same file that succeeded.
C19_ApplyOnlyAfterCleanRevert ==
    \A k \in DOMAIN calls :
        IsCall(k, "apply", "-ac.patch") =>
            /\ k > 1
            /\ calls[k - 1].cmd = "checkout"
            /\ calls[k - 1].file = calls[k].file
            /\ calls[k - 1].ok

\* C20: a file has a cache entry or a checkout, apply or add call only when
\* every one of its hunks has its decision; and while a file is being
\* classified its working tree and index are as the command found them,
\* nothing of it is in the cache, and every earlier file was skipped (no
\* accepted hunk) or has gone through its whole protocol.
C20_NothingBeforeClassification ==
    /\ \A f \in DOMAIN diff :
           Len(diff[f].acceptedHunks) + Len(diff[f].ignoredHunks) < Len(diff[f].hunks)
               => CallsOf(f) = {}
    /\ (pc = "classify" /\ hi <= Len(fileDiff.hunks)) =>
           /\ CallsOf(fi) = {}
           /\ wt[fileDiff.fileName] = AllHunks(fi)
           /\ idx[fileDiff.fileName] = {}
           /\ \A h \in DOMAIN files :
                  files[h].originalState.content[1].file # fileDiff.file
           /\ \A g \in 1..(fi - 1) : Accepted(g) = {} \/ Finished(g)

C20_Witness ==
    /\ pc = "classify"
    /\ fi >= 2
    /\ hi >= 2
    /\ hi <= Len(fileDiff.hunks)
    /\ Finished(1)
    /\ Ignored(1) # {}

\* C21: the hunks of a file are handled in their order of appearance: when
\* hunk number hi is shown, the decisions recorded for the file are exactly
\* those of the hunks before it, one each, and the step records the decision
\* of that hunk and of no other; both lists keep the order of appearance.
C21_HunksInOrder ==
    [][(pc = "classify" /\ diff' # diff) =>
          LET rec == diff[fi]
              after == diff'[fi]
              decided == Range(rec.acceptedHunks) \cup Range(rec.ignoredHunks)
          IN /\ decided = {rec.hunks[k] : k \in 1..(hi - 1)}
             /\ Len(rec.acceptedHunks) + Len(rec.ignoredHunks) = hi - 1
             /\ hi' = hi + 1
             /\ Range(after.acceptedHunks) \cup Range(after.ignoredHunks)
                    = decided \cup {rec.hunks[hi]}
             /\ Len(after.acceptedHunks) + Len(after.ignoredHunks) = hi
             /\ IsSubseq(after.acceptedHunks, rec.hunks)
             /\ IsSubseq(after.ignoredHunks, rec.hunks)
             /\ \A g \in DOMAIN diff \ {fi} : diff'[g] = diff[g]]_vars

\* the second hunk of a file was decided after the first, one accepted and
\* one rejected
C21_Witness ==
    /\ pc = "classify"
    /\ hi = 3
    /\ Len(fileDiff.acceptedHunks) = 1
    /\ Len(fileDiff.ignoredHunks) = 1

\* C22: the files are handled one at a time. Whenever the action has begun
\* on a file (it is the file of the loop, or a decision or a call exists for
\* it), every file before it is in a terminal state: skipped with no
\* accepted hunk and no call, or its cache entry cleared; and in the calls
\* issued, the calls of one file all come before the calls of the next.
C22_OneFileAtATime ==
    /\ \A f \in DOMAIN diff :
           (\/ pc # "start" /\ f = fi
            \/ Accepted(f) \cup Ignored(f) # {}
            \/ CallsOf(f) # {})
           => \A g \in 1..(f - 1) :
                 \/ ClassificationDone(g) /\ Accepted(g) = {} /\ CallsOf(g) = {}
                 \/ \E k \in CallsOf(g) : calls[k].cmd = "clear" /\ calls[k].ok
    /\ \A k \in 1..(Len(calls) - 1) : calls[k].file <= calls[k + 1].file

\* the second file is at its stage call after the first went through all of
\* its protocol
C22_Witness ==
    /\ pc = "add"
    /\ fi = 2
    /\ Finished(1)
    /\ \E k \in CallsOf(2) : calls[k].cmd = "apply"

\* C23: a file whose revert, accepted apply, stage and ignored apply all
\* succeeded, and which the loop has left, reached clearFileCache, and none
\* of the scratch files created for it is on disk any more.
C23_SuccessLeavesNoScratchFile ==
    \A f \in DOMAIN diff :
        (/\ Past(f)
         /\ Accepted(f) # {}
         /\ \A k \in CallsOf(f) :
                calls[k].cmd \in {"create", "checkout", "apply", "add"} => calls[k].ok)
        => /\ \E k \in CallsOf(f) : calls[k].cmd = "clear" /\ calls[k].ok
           /\ \A k \in CallsOf(f) :
                  calls[k].cmd = "create" =>
                      \A suffix \in {"-or.patch", "-ac.patch", "-ig.patch"} :
                          <<calls[k].arg, suffix>> \notin DOMAIN disk

\* a file with an accepted and a rejected hunk went through the whole
\* protocol, three scratch files having been written for it, and the
\* command has returned
C23_Witness ==
    /\ pc = "done"
    /\ \E f \in DOMAIN diff :
           /\ Finished(f) /\ AllOk(f)
           /\ Ignored(f) # {}
           /\ \E k \in CallsOf(f) : IsCall(k, "apply", "-ig.patch")
    /\ disk = <<>>

\* C24: the parser gives one record per 'diff --git' line, in the order of
\* the text, and the hunks of a record that begin with '@@' are the hunks of
\* the block of that file, in their order of appearance: each goes from its
\* '@@' line to the line before the next '@@' or 'diff --git' line (or to the
\* end of the text), and none is attached to another record.
C24_HunksAttachedToTheirFile ==
    pc # "text" =>
        LET lines == SourceLines IN
        /\ Len(diff) = Cardinality(BlockStarts(lines))
        /\ \A f \in DOMAIN diff :
               /\ diff[f].file = replace(lines[BlockStart(lines, f)], DiffGit)
               /\ SelectSeq(diff[f].hunks, startsWithAtAt) = HunkTextsOf(lines, f)

\* a text with two files of two hunks each has been parsed
C24_Witness ==
    /\ pc = "parsed"
    /\ Len(diff) = 2
    /\ \A f \in DOMAIN diff : Len(SelectSeq(diff[f].hunks, startsWithAtAt)) = 2

\* C25: every hunk of a parsed record is non-empty and begins with its '@@'
\* line, and the record of a file block without '@@' line has no hunk.
C25_HunksBeginWithMarker ==
    pc # "text" =>
        LET lines == SourceLines IN
        \A f \in DOMAIN diff :
            /\ \A j \in DOMAIN diff[f].hunks :
                   Len(diff[f].hunks[j]) > 0 /\ startsWithAtAt(diff[f].hunks[j])
            /\ MarkersOf(lines, f) = {} => diff[f].hunks = <<>>

\* C26: when a write of a scratch file fails in createPatchCache, the action
\* ends with that error, the table has no entry for the hash of the call,
\* and no checkout, apply or add (and no other call) is issued for the file.
C26_WriteFailureStopsTheFile ==
    \A k \in DOMAIN calls :
        (calls[k].cmd = "create" /\ ~calls[k].ok) =>
            /\ pc = "rejected"
            /\ k = Len(calls)
            /\ getFileCache(files, calls[k].arg) = undefined
            /\ file = undefined \/ file[1].hash # calls[k].arg
            /\ \A j \in DOMAIN calls :
                   calls[j].file = calls[k].file => j = k

\* the write of the accepted or of the ignored document failed: the file of
\* the original document is on disk, the command has ended
C26_Witness ==
    /\ pc = "rejected"
    /\ calls # <<>>
    /\ calls[Len(calls)].cmd = "create"
    /\ ~calls[Len(calls)].ok
    /\ <<calls[Len(calls)].arg, "-or.patch">> \in DOMAIN disk
    /\ Ignored(fi) # {}

\* C27: rejected changes are never lost. Once the revert of a file has been
\* issued, each hunk the operator rejected is in the working tree of the
\* file or in a scratch file of the file on disk (the original or the
\* ignored document).
C27_RejectedNeverLost ==
    \A f \in DOMAIN diff :
        (\E k \in CallsOf(f) : calls[k].cmd = "checkout") =>
            \A hunk \in Ignored(f) :
                \/ hunk \in wt[diff[f].fileName]
                \/ \E path \in DOMAIN disk :
                       /\ path[2] \in {"-or.patch", "-ig.patch"}
                       /\ disk[path] # null
                       /\ disk[path][1].file = diff[f].file
                       /\ hunk \in Range(disk[path][1].hunks)

C29_ExeCommandSettles ==
    (pc = "recover") ~> (pc \in {"add", "rejected"})

\* C30: the cache table is process-wide. The handle a 'new CacheStore()'
\* returns is the instance, its table being the table of the process: every
\* entry created before, through whatever handle, is found through it; and
\* the entry of every hash createPatchCache has returned stays in the table
\* whatever handles are constructed afterwards.
C30_OneTableForAllHandles ==
    /\ ret.op = "new" =>
           /\ instance
           /\ ret.known
           /\ ret.value = files
           /\ \A hash \in issued :
                  /\ getFileCache(ret.value, hash) # undefined
                  /\ getFileCache(ret.value, hash)[1].hash = hash
    /\ \A hash \in issued : getFileCache(files, hash) # undefined

\* a handle was constructed after an entry had been created through an
\* earlier one
C30_Witness ==
    /\ ret.op = "new"
    /\ issued # {}
    /\ DOMAIN files # {}

====
